---- MODULE Spec2Model ----
(***************************************************************************)
(* The resilient invocation patterns of the Nuxt Tauri documentation:      *)
(*   - useTauriInvoke, the invocation client (data / pending / error),     *)
(*   - useCircuitBreaker (Error Handling guide, "Circuit Breaker Pattern"),*)
(*   - the retry-with-backoff component (Error Handling guide,             *)
(*     "Retry Logic with Exponential Backoff") and its calculateDelay,     *)
(*   - useCachedInvoke and useBatchOperations (Advanced Patterns guide,    *)
(*     "Performance Optimization"),                                        *)
(*   - mockUseTauriInvoke (Advanced Patterns guide, "Testing Patterns").   *)
(* JavaScript is single threaded: every action below is one run of a task  *)
(* (a call, a timer callback, the continuation after an await) together    *)
(* with the microtasks it queues (watcher callbacks).                      *)
(***************************************************************************)
EXTENDS Integers, Sequences, FiniteSets, TLC

VARIABLES
    \* ---- useCircuitBreaker ----
    now,              \* Date.now(), in abstract ticks
    cbOptions,        \* options: failureThreshold, resetTimeout
    circuitState,     \* ref<CircuitBreakerState>
    cbError,          \* const error = ref<Error | null>(null)
    canExecuteCache,  \* the cache of the computed canExecute
    raw,              \* the wrapped useTauriInvoke: data, pending, error
    rawInFlight,      \* rawExecute() calls awaiting the transport
    cbHist,           \* history: what the last step did, calls counted
    \* ---- retry component ----
    sync,             \* useTauriInvoke('sync_data'): data, pending, error
    syncInFlight,     \* execute() calls awaiting the transport
    currentAttempt,   \* ref(0)
    isRetrying,       \* ref(false)
    remainingTime,    \* ref(0)
    timeouts,         \* live setTimeout timers: id -> ms left
    intervals,        \* live setInterval timers: id -> ms to the next tick
    retryTimeoutId,   \* ref<NodeJS.Timeout>()
    countdownIntervalId, \* ref<NodeJS.Timeout>()
    mounted,          \* the component is mounted: its watchers and buttons live
    rtHist,           \* history: what the last step did, attempts counted
    \* ---- calculateDelay over the retries of one session ----
    dlIndex,          \* the attempt index the next retry passes
    dlDelay,          \* the delay of the last retry scheduled, 0 before it
    dlPrev,           \* the delay of the retry before that, 0 before it
    \* ---- useCachedInvoke ----
    chNow,            \* Date.now(), in abstract ticks
    cache,            \* const cache = new Map<string, CacheEntry<any>>()
    chInst,           \* the useCachedInvoke instances created, in order
    chHist,           \* history: what the last step did
    \* ---- useBatchOperations ----
    pendingOperations, \* ref([]): the operations not yet taken for a batch
    isProcessing,     \* ref(false)
    btTimer,          \* the timer of debounce(processBatch, 50): ms left, or
                      \* NoTimer
    btOperations,     \* `operations` of the processBatch awaiting executeBatch
    btPromises,       \* the promise of every addOperation so far, by id
    btSent,           \* history: the executeBatch calls made, in order
    btSinceAdd,       \* history: ms since the last addOperation (up to 50)
    btHist,           \* history: what the last step did
    \* ---- mockUseTauriInvoke ----
    mockData,         \* the argument mockData
    mockError,        \* the argument mockError (Undefined when not given)
    mkData,           \* const data = ref(mockData)
    mkPending,        \* const pending = ref(false)
    mkError,          \* const error = ref(mockError || null)
    mkTimers,         \* the setTimeout(resolve, 100) of every execute() in
                      \* flight: [id, left]
    mkHist            \* history: what the last step did, calls counted

cbVars == <<now, cbOptions, circuitState, cbError, canExecuteCache, raw,
            rawInFlight, cbHist>>
rtVars == <<sync, syncInFlight, currentAttempt, isRetrying, remainingTime,
            timeouts, intervals, retryTimeoutId, countdownIntervalId, mounted,
            rtHist>>
dlVars == <<dlIndex, dlDelay, dlPrev>>
chVars == <<chNow, cache, chInst, chHist>>
btVars == <<pendingOperations, isProcessing, btTimer, btOperations,
            btPromises, btSent, btSinceAdd, btHist>>
mkVars == <<mockData, mockError, mkData, mkPending, mkError, mkTimers,
            mkHist>>
vars == <<cbVars, rtVars, dlVars, chVars, btVars, mkVars>>
\* What the steps of one component leave alone.
outsideBreaker == <<rtVars, dlVars, chVars, btVars, mkVars>>
outsideRetry == <<cbVars, dlVars, chVars, btVars, mkVars>>
outsideDelay == <<cbVars, rtVars, chVars, btVars, mkVars>>
outsideCache == <<cbVars, rtVars, dlVars, btVars, mkVars>>
outsideBatch == <<cbVars, rtVars, dlVars, chVars, mkVars>>
outsideMock == <<cbVars, rtVars, dlVars, chVars, btVars>>

(***************************************************************************)
(* Bounds of the model.                                                    *)
(***************************************************************************)
\* The breaker: the last tick of Date.now(), the largest failureThreshold
\* and resetTimeout (in ticks) an instance is constructed with, the calls of
\* rawExecute in flight at once, and the calls made in all.
MaxTime == 5
MaxThreshold == 2
MaxResetTimeout == 2
MaxInFlight == 2
MaxCalls == 4
\* The retry component: the invocations of sync_data in all, and how far
\* below zero remainingTime is followed.
MaxInvocations == 7
MaxOverrun == 2
\* calculateDelay: the attempt indices it is applied to are 0..MaxAttempt-1.
MaxAttempt == 7
\* useCachedInvoke: the last tick of Date.now(), the largest ttl (in ticks),
\* the instances created, the execute() calls made in all, and those of one
\* instance in flight at once.
MaxCacheTime == 2
MaxTtl == 2
MaxInstances == 2
MaxFetches == 3
MaxFetchesInFlight == 1
\* useBatchOperations: the addOperation calls made in all.
MaxOperations == 4
\* mockUseTauriInvoke: the execute() calls made in all.
MaxMockCalls == 4

(***************************************************************************)
(* JavaScript values.                                                      *)
(***************************************************************************)
Null == [t |-> "null", v |-> 0, message |-> <<>>]
JNum(n) == [t |-> "number", v |-> n, message |-> <<>>]
\* An object received from the transport is a new object every time: it is
\* never identical to the one held before.
FreshObject(old) ==
    [t |-> "object", v |-> IF old.t = "object" THEN 1 - old.v ELSE 0,
     message |-> <<>>]
\* new Error(message); the message is a sequence of words.
Err(msg) == [t |-> "Error", v |-> 0, message |-> msg]
Truthy(x) == x.t \in {"object", "Error"} \/ (x.t = "number" /\ x.v # 0)

\* String.prototype.includes, on words.
Includes(msg, pat) ==
    \E i \in 1..(Len(msg) - Len(pat) + 1) :
        SubSeq(msg, i, i + Len(pat) - 1) = pat

(***************************************************************************)
(* useTauriInvoke: the invocation client.  Its implementation belongs to   *)
(* the nuxt-module-tauri package, not to these sources; what is modelled   *)
(* is its documented contract: execute() sets pending and clears error,    *)
(* then sets data or error when the transport settles, and "automatically  *)
(* catches and handles errors", so a failure is reported through the error *)
(* ref.                                                                    *)
(***************************************************************************)
ClientInit == [data |-> Null, pending |-> FALSE, error |-> Null]

\* execute(), up to the await of the transport.
ClientBegin(c) == [c EXCEPT !.pending = TRUE, !.error = Null]

\* The transport settles: outcome.ok with outcome.value, or outcome.error.
ClientSettle(c, outcome) ==
    IF outcome.ok
    THEN [c EXCEPT !.data = outcome.value, !.pending = FALSE]
    ELSE [c EXCEPT !.error = outcome.error, !.pending = FALSE]

(***************************************************************************)
(* useCircuitBreaker                                                       *)
(***************************************************************************)
CircuitOpenError ==
    Err(<<"Circuit", "breaker", "is", "OPEN.", "Service", "is",
          "temporarily", "unavailable.">>)
ConnectionTimeout == Err(<<"Connection", "timeout">>)

ClosedState ==
    [state |-> "CLOSED", failureCount |-> 0, lastFailureTime |-> 0,
     nextAttemptTime |-> 0]

\* CanExecuteGetter forgetting the failures when it moves to HALF_OPEN.
CanExecuteGetter_ResetsCount(cs, t) ==
    CASE cs.state = "CLOSED" -> [value |-> TRUE, cs |-> cs]
      [] cs.state = "OPEN" ->
            IF t >= cs.nextAttemptTime
            THEN [value |-> TRUE,
                  cs |-> [cs EXCEPT !.state = "HALF_OPEN", !.failureCount = 0]]
            ELSE [value |-> FALSE, cs |-> cs]
      [] cs.state = "HALF_OPEN" -> [value |-> TRUE, cs |-> cs]
      [] OTHER -> [value |-> FALSE, cs |-> cs]

\* The getter of the computed canExecute, run at time t on circuit state cs:
\* the value it returns and the circuit state it leaves.
CanExecuteGetter(cs, t) ==
    CASE cs.state = "CLOSED" -> [value |-> TRUE, cs |-> cs]
      [] cs.state = "OPEN" ->
            IF t >= cs.nextAttemptTime
            THEN [value |-> TRUE, cs |-> [cs EXCEPT !.state = "HALF_OPEN"]]
            ELSE [value |-> FALSE, cs |-> cs]
      [] cs.state = "HALF_OPEN" -> [value |-> TRUE, cs |-> cs]
      [] OTHER -> [value |-> FALSE, cs |-> cs]

\* Reading canExecute.value.  canExecute is a Vue computed: its getter runs
\* only when a reactive value it read has changed since its last run;
\* Date.now() is not reactive, so the passing of time alone never re-runs it.
ReadCanExecute(memo, cs, t) ==
    IF memo.valid
    THEN [value |-> memo.value, cs |-> cs]
    ELSE CanExecuteGetter(cs, t)

\* The cache of the computed after circuitState went from old to new
\* (replaced: the ref got a new object).  The getter read circuitState.value, .state and, in OPEN,
\* .nextAttemptTime.
Invalidate(memo, old, new, replaced) ==
    IF replaced \/ old.state # new.state
                \/ old.nextAttemptTime # new.nextAttemptTime
    THEN [memo EXCEPT !.valid = FALSE]
    ELSE memo

\* OnResolved with a reset that forgets the failure count.
OnResolved_KeepsFailureCount(cs) ==
    IF cs.state # "CLOSED" THEN [cs EXCEPT !.state = "CLOSED"] ELSE cs

\* OnResolved with the reset made in every phase.
OnResolved_AlwaysResets(cs) == ClosedState

\* The body of the try block after `await rawExecute()` resolved.
OnResolved(cs) == IF cs.state # "CLOSED" THEN ClosedState ELSE cs

\* The body of the catch block, at time t.
OnRejected(cs, t, threshold, resetTimeout) ==
    LET counted == [cs EXCEPT !.failureCount = @ + 1, !.lastFailureTime = t]
    IN  IF counted.failureCount >= threshold
        THEN [counted EXCEPT !.state = "OPEN",
                             !.nextAttemptTime = t + resetTimeout]
        ELSE counted

CbHistInit ==
    [op |-> "init", before |-> "CLOSED", canExecute |-> TRUE, calls |-> 0,
     failed |-> 0, succeeded |-> 0]

\* The breaker as constructed, with the given options (failureThreshold and
\* resetTimeout; the option timeout is destructured and never used).
CbConstructed(options) ==
    /\ now = 1
    /\ cbOptions = options
    /\ circuitState = ClosedState
    /\ cbError = Null
    /\ canExecuteCache = [valid |-> FALSE, value |-> FALSE]
    /\ raw = ClientInit
    /\ rawInFlight = 0
    /\ cbHist = CbHistInit

\* Time passes.
CbTick ==
    /\ now < MaxTime
    /\ now' = now + 1
    /\ cbHist' = [cbHist EXCEPT !.op = "tick", !.before = circuitState.state]
    /\ UNCHANGED <<cbOptions, circuitState, cbError, canExecuteCache, raw,
                   rawInFlight>>
    /\ UNCHANGED outsideBreaker

\* canExecute.value is read by the caller (a template, a test).
CbReadCanExecute ==
    LET r == ReadCanExecute(canExecuteCache, circuitState, now)
    IN  /\ circuitState' = r.cs
        /\ canExecuteCache' = [valid |-> TRUE, value |-> r.value]
        /\ cbHist' = [cbHist EXCEPT !.op = "read", !.before = circuitState.state,
                                    !.canExecute = r.value]
        /\ UNCHANGED <<now, cbOptions, cbError, raw, rawInFlight>>
        /\ UNCHANGED outsideBreaker

\* CbExecuteRejected without the early return: the error is set and the
\* wrapped operation is called all the same.
CbExecuteRejected_StillCalls ==
    LET r == ReadCanExecute(canExecuteCache, circuitState, now)
    IN  /\ ~r.value
        /\ rawInFlight < MaxInFlight
        /\ cbHist.calls < MaxCalls
        /\ circuitState' = r.cs
        /\ canExecuteCache' = [valid |-> TRUE, value |-> r.value]
        /\ cbError' = CircuitOpenError
        /\ raw' = ClientBegin(raw)
        /\ rawInFlight' = rawInFlight + 1
        /\ cbHist' = [cbHist EXCEPT !.op = "rejected",
                                    !.before = circuitState.state,
                                    !.canExecute = FALSE, !.calls = @ + 1]
        /\ UNCHANGED <<now, cbOptions>>
        /\ UNCHANGED outsideBreaker

\* CbExecuteRejected counting the rejection as a failure of the operation.
CbExecuteRejected_CountsFailure ==
    LET r == ReadCanExecute(canExecuteCache, circuitState, now)
    IN  /\ ~r.value
        /\ circuitState' = [r.cs EXCEPT
                                !.failureCount = @ + 1,
                                !.lastFailureTime = now,
                                !.nextAttemptTime = now + cbOptions.resetTimeout]
        /\ canExecuteCache' = [valid |-> TRUE, value |-> r.value]
        /\ cbError' = CircuitOpenError
        /\ cbHist' = [cbHist EXCEPT !.op = "rejected",
                                    !.before = circuitState.state,
                                    !.canExecute = FALSE]
        /\ UNCHANGED <<now, cbOptions, raw, rawInFlight>>
        /\ UNCHANGED outsideBreaker

\* execute() when canExecute.value is false.
CbExecuteRejected ==
    LET r == ReadCanExecute(canExecuteCache, circuitState, now)
    IN  /\ ~r.value
        /\ circuitState' = r.cs
        /\ canExecuteCache' = [valid |-> TRUE, value |-> r.value]
        /\ cbError' = CircuitOpenError
        /\ cbHist' = [cbHist EXCEPT !.op = "rejected",
                                    !.before = circuitState.state,
                                    !.canExecute = FALSE]
        /\ UNCHANGED <<now, cbOptions, raw, rawInFlight>>
        /\ UNCHANGED outsideBreaker

\* execute() when canExecute.value is true, up to `await rawExecute()`.
CbExecuteAdmitted ==
    LET r == ReadCanExecute(canExecuteCache, circuitState, now)
    IN  /\ r.value
        /\ rawInFlight < MaxInFlight
        /\ cbHist.calls < MaxCalls
        /\ circuitState' = r.cs
        /\ canExecuteCache' = [valid |-> TRUE, value |-> r.value]
        /\ raw' = ClientBegin(raw)
        /\ rawInFlight' = rawInFlight + 1
        /\ cbHist' = [cbHist EXCEPT !.op = "admitted",
                                    !.before = circuitState.state,
                                    !.canExecute = TRUE, !.calls = @ + 1]
        /\ UNCHANGED <<now, cbOptions, cbError>>
        /\ UNCHANGED outsideBreaker

\* The wrapped operation succeeded: rawExecute() resolves.
CbSettleSuccess ==
    /\ rawInFlight > 0
    /\ raw' = ClientSettle(raw, [ok |-> TRUE, value |-> FreshObject(raw.data)])
    /\ rawInFlight' = rawInFlight - 1
    /\ circuitState' = OnResolved(circuitState)
    /\ canExecuteCache' = Invalidate(canExecuteCache, circuitState,
                                     circuitState', circuitState.state # "CLOSED")
    /\ cbError' = Null
    /\ cbHist' = [cbHist EXCEPT !.op = "success",
                                !.before = circuitState.state,
                                !.succeeded = @ + 1]
    /\ UNCHANGED <<now, cbOptions>>
    /\ UNCHANGED outsideBreaker

\* The wrapped operation failed and useTauriInvoke caught the failure:
\* rawError is set and rawExecute() resolves.
CbSettleFailureCaught ==
    /\ rawInFlight > 0
    /\ raw' = ClientSettle(raw, [ok |-> FALSE, error |-> ConnectionTimeout])
    /\ rawInFlight' = rawInFlight - 1
    /\ circuitState' = OnResolved(circuitState)
    /\ canExecuteCache' = Invalidate(canExecuteCache, circuitState,
                                     circuitState', circuitState.state # "CLOSED")
    /\ cbError' = Null
    /\ cbHist' = [cbHist EXCEPT !.op = "failureCaught",
                                !.before = circuitState.state,
                                !.failed = @ + 1]
    /\ UNCHANGED <<now, cbOptions>>
    /\ UNCHANGED outsideBreaker

\* The wrapped operation failed and rawExecute() rejects: the case the
\* catch block of execute() is written for (and the one the guide's own test
\* of the breaker and its global error handler expect).  The sources do not
\* settle which of the two a failure is, so the model admits both.
CbSettleFailureThrown ==
    /\ rawInFlight > 0
    /\ raw' = ClientSettle(raw, [ok |-> FALSE, error |-> ConnectionTimeout])
    /\ rawInFlight' = rawInFlight - 1
    /\ circuitState' = OnRejected(circuitState, now, cbOptions.failureThreshold,
                                  cbOptions.resetTimeout)
    /\ canExecuteCache' = Invalidate(canExecuteCache, circuitState,
                                     circuitState', FALSE)
    /\ cbError' = ConnectionTimeout
    /\ cbHist' = [cbHist EXCEPT !.op = "failureThrown",
                                !.before = circuitState.state,
                                !.failed = @ + 1]
    /\ UNCHANGED <<now, cbOptions>>
    /\ UNCHANGED outsideBreaker

\* error: computed(() => error.value || rawError.value)
CbExposedError == IF Truthy(cbError) THEN cbError ELSE raw.error

(***************************************************************************)
(* The retry component ("Retry Logic with Exponential Backoff").           *)
(* Timers are records [id, left]: left is the time in ms until the timer   *)
(* is due.  A handle is the id of a timer, 0 when the ref is undefined.    *)
(***************************************************************************)
maxRetries == 5
baseDelay == 1000
DelayCap == 30000
CountdownPeriod == 1000

\* Values of Math.random() * 1000 the model draws.
JitterChoices == {0, 500}
\* How far time advances in one step when no timer is due earlier.
TimeStep == CHOOSE d \in JitterChoices : d > 0

PermissionDenied == Err(<<"permission", "denied">>)
Unauthorized == Err(<<"user", "unauthorized">>)
\* A failure of the call's own contract, as the transport words it.
InvalidArgument == Err(<<"invalid", "args", "for", "command">>)
\* The failures of sync_data the model draws: a transient one, the
\* permission-related ones, a malformed call, and the rejection of a
\* circuit breaker in front of the command.
SyncErrors ==
    {ConnectionTimeout, PermissionDenied, Unauthorized, InvalidArgument,
     CircuitOpenError}
\* The results of sync_data the model draws: an object, null, a number.
SyncResults(old) == {FreshObject(old), Null, JNum(7)}

Min(a, b) == IF a <= b THEN a ELSE b
Max(a, b) == IF a >= b THEN a ELSE b
RECURSIVE Pow2(_)
Pow2(n) == IF n <= 0 THEN 1 ELSE 2 * Pow2(n - 1)
\* Math.ceil(x / d) for integers
CeilDiv(x, d) == (x + d - 1) \div d

\* calculateDelay without Math.min(..., 30000).
calculateDelay_NoCap(attempt, jitter) == baseDelay * Pow2(attempt) + jitter

\* calculateDelay without the exponential factor.
calculateDelay_NoBackoff(attempt, jitter) ==
    Min(baseDelay + jitter, DelayCap)

\* calculateDelay(attempt), with jitter the value of Math.random() * 1000
calculateDelay(attempt, jitter) ==
    LET exponentialDelay == baseDelay * Pow2(attempt)
    IN  Min(exponentialDelay + jitter, DelayCap)

\* IsRetryable without the check for 'unauthorized'.
IsRetryable_PermissionOnly(newError) ==
    ~Includes(newError.message, <<"permission">>)

\* const isRetryable = !message.includes('permission') &&
\*                     !message.includes('unauthorized')
IsRetryable(newError) ==
    /\ ~Includes(newError.message, <<"permission">>)
    /\ ~Includes(newError.message, <<"unauthorized">>)

Ids(timers) == {t.id : t \in timers}
\* The handle setTimeout / setInterval returns: an id no live timer has and
\* the ref being overwritten does not hold.
NewId(timers, handle) ==
    CHOOSE i \in 1..(Cardinality(timers) + 2) :
        /\ i \notin Ids(timers) \cup {handle}
        /\ \A j \in 1..(i - 1) : j \in Ids(timers) \cup {handle}
\* clearTimeout(handle) / clearInterval(handle)
Clear(timers, handle) == {t \in timers : t.id # handle}

\* The refs and timers of the component, as one record.
Rt ==
    [currentAttempt |-> currentAttempt, isRetrying |-> isRetrying,
     remainingTime |-> remainingTime, timeouts |-> timeouts,
     intervals |-> intervals, retryTimeoutId |-> retryTimeoutId,
     countdownIntervalId |-> countdownIntervalId]

SetRt(r) ==
    /\ currentAttempt' = r.currentAttempt
    /\ isRetrying' = r.isRetrying
    /\ remainingTime' = r.remainingTime
    /\ timeouts' = r.timeouts
    /\ intervals' = r.intervals
    /\ retryTimeoutId' = r.retryTimeoutId
    /\ countdownIntervalId' = r.countdownIntervalId

\* startRetry without `currentAttempt.value++`.
startRetry_NoIncrement(r, jitter) ==
    IF r.currentAttempt >= maxRetries
    THEN r
    ELSE LET delay == calculateDelay(r.currentAttempt, jitter)
             iid == NewId(r.intervals, r.countdownIntervalId)
             tid == NewId(r.timeouts, r.retryTimeoutId)
         IN  [r EXCEPT
                !.isRetrying = TRUE,
                !.remainingTime = CeilDiv(delay, 1000),
                !.intervals = @ \cup {[id |-> iid, left |-> CountdownPeriod]},
                !.countdownIntervalId = iid,
                !.timeouts = @ \cup {[id |-> tid, left |-> delay]},
                !.retryTimeoutId = tid]

\* startRetry(), jitter the value of Math.random() * 1000
startRetry(r, jitter) ==
    IF r.currentAttempt >= maxRetries
    THEN r
    ELSE LET attempt == r.currentAttempt + 1
             delay == calculateDelay(attempt - 1, jitter)
             iid == NewId(r.intervals, r.countdownIntervalId)
             tid == NewId(r.timeouts, r.retryTimeoutId)
         IN  [r EXCEPT
                !.currentAttempt = attempt,
                !.isRetrying = TRUE,
                !.remainingTime = CeilDiv(delay, 1000),
                !.intervals = @ \cup {[id |-> iid, left |-> CountdownPeriod]},
                !.countdownIntervalId = iid,
                !.timeouts = @ \cup {[id |-> tid, left |-> delay]},
                !.retryTimeoutId = tid]

\* cancelRetry without clearTimeout(retryTimeoutId.value).
cancelRetry_KeepsTimeout(r) ==
    [r EXCEPT
        !.intervals = IF r.countdownIntervalId # 0
                      THEN Clear(@, r.countdownIntervalId) ELSE @,
        !.isRetrying = FALSE,
        !.currentAttempt = 0]

\* cancelRetry()
cancelRetry(r) ==
    [r EXCEPT
        !.timeouts = IF r.retryTimeoutId # 0
                     THEN Clear(@, r.retryTimeoutId) ELSE @,
        !.intervals = IF r.countdownIntervalId # 0
                      THEN Clear(@, r.countdownIntervalId) ELSE @,
        !.isRetrying = FALSE,
        !.currentAttempt = 0]

\* watchError scheduling a retry whatever the attempt counter says.
watchError_Unbounded(r, newError, jitter) ==
    IF Truthy(newError) /\ ~r.isRetrying /\ IsRetryable(newError)
    THEN LET attempt == r.currentAttempt + 1
             delay == calculateDelay(attempt - 1, jitter)
             iid == NewId(r.intervals, r.countdownIntervalId)
             tid == NewId(r.timeouts, r.retryTimeoutId)
         IN  [r EXCEPT
                !.currentAttempt = attempt,
                !.isRetrying = TRUE,
                !.remainingTime = CeilDiv(delay, 1000),
                !.intervals = @ \cup {[id |-> iid, left |-> CountdownPeriod]},
                !.countdownIntervalId = iid,
                !.timeouts = @ \cup {[id |-> tid, left |-> delay]},
                !.retryTimeoutId = tid]
    ELSE r

\* watch(error, (newError) => ...)
watchError(r, newError, jitter) ==
    IF Truthy(newError) /\ ~r.isRetrying /\ r.currentAttempt < maxRetries
    THEN IF IsRetryable(newError) THEN startRetry(r, jitter) ELSE r
    ELSE r

\* watch(data, (newData) => ...)
watchData(r, newData) ==
    IF Truthy(newData)
    THEN cancelRetry([r EXCEPT !.currentAttempt = 0])
    ELSE r

RtHistInit ==
    [op |-> "init", invocations |-> 0, total |-> 0, clean |-> FALSE]

RtInit ==
    /\ sync = ClientInit
    /\ syncInFlight = 0
    /\ currentAttempt = 0
    /\ isRetrying = FALSE
    /\ remainingTime = 0
    /\ timeouts = {}
    /\ intervals = {}
    /\ retryTimeoutId = 0
    /\ countdownIntervalId = 0
    /\ mounted = TRUE
    /\ rtHist = RtHistInit

\* startSync(): the "Start Sync" button (disabled while pending or
\* retrying) or the "Retry Now" button (shown when error && !isRetrying).
RtStartSync ==
    /\ mounted
    /\ \/ ~sync.pending /\ ~isRetrying
       \/ Truthy(sync.error) /\ ~isRetrying
    /\ rtHist.total < MaxInvocations
    /\ SetRt(cancelRetry([Rt EXCEPT !.currentAttempt = 0]))
    /\ sync' = ClientBegin(sync)
    /\ syncInFlight' = syncInFlight + 1
    /\ rtHist' = [op |-> "startSync", invocations |-> 1,
                  total |-> rtHist.total + 1, clean |-> syncInFlight = 0]
    /\ UNCHANGED mounted
    /\ UNCHANGED outsideRetry

\* The "Cancel" button, shown while isRetrying.
RtCancelClick ==
    /\ mounted
    /\ isRetrying
    /\ SetRt(cancelRetry(Rt))
    /\ rtHist' = [rtHist EXCEPT !.op = "cancel", !.clean = FALSE]
    /\ UNCHANGED <<sync, syncInFlight, mounted>>
    /\ UNCHANGED outsideRetry

\* onUnmounted(() => cancelRetry()); the watchers stop with the component.
RtUnmount ==
    /\ mounted
    /\ SetRt(cancelRetry(Rt))
    /\ mounted' = FALSE
    /\ rtHist' = [rtHist EXCEPT !.op = "unmount", !.clean = FALSE]
    /\ UNCHANGED <<sync, syncInFlight>>
    /\ UNCHANGED outsideRetry

\* sync_data succeeds with value: data is set, and watch(data) runs when
\* data changed.
RtSettleSuccess ==
    \E value \in SyncResults(sync.data) :
        /\ syncInFlight > 0
        /\ sync' = ClientSettle(sync, [ok |-> TRUE, value |-> value])
        /\ syncInFlight' = syncInFlight - 1
        /\ SetRt(IF mounted /\ value # sync.data
                 THEN watchData(Rt, value) ELSE Rt)
        /\ rtHist' = [rtHist EXCEPT !.op = "success", !.clean = FALSE]
        /\ UNCHANGED mounted
        /\ UNCHANGED outsideRetry

\* sync_data fails with err (a new Error object): error is set, and
\* watch(error) runs.
RtSettleFailure ==
    \E err \in SyncErrors, jitter \in JitterChoices :
        /\ syncInFlight > 0
        /\ sync' = ClientSettle(sync, [ok |-> FALSE, error |-> err])
        /\ syncInFlight' = syncInFlight - 1
        /\ SetRt(IF mounted THEN watchError(Rt, err, jitter) ELSE Rt)
        /\ rtHist' = [rtHist EXCEPT !.op = "failure",
                                    !.clean = @ /\ IsRetryable(err)]
        /\ UNCHANGED mounted
        /\ UNCHANGED outsideRetry

\* Time passes, no further than to the moment the next timer is due.
\* Timers due at the same moment run in either order.
RtAdvance ==
    LET live == timeouts \cup intervals
    IN  /\ live # {}
        /\ \A t \in live : t.left > 0
        /\ \E d \in {TimeStep} \cup {t.left : t \in live} :
              /\ \A t \in live : d <= t.left
              /\ timeouts' = {[t EXCEPT !.left = @ - d] : t \in timeouts}
              /\ intervals' = {[t EXCEPT !.left = @ - d] : t \in intervals}
        /\ rtHist' = [rtHist EXCEPT !.op = "advance"]
        /\ UNCHANGED <<sync, syncInFlight, currentAttempt, isRetrying,
                       remainingTime, retryTimeoutId, countdownIntervalId,
                       mounted>>
        /\ UNCHANGED outsideRetry

\* The callback of a countdown interval that is due.
RtCountdownTick ==
    \E t \in intervals :
        /\ t.left = 0
        /\ LET remaining == Max(remainingTime - 1, 0 - MaxOverrun)
               rearmed == (intervals \ {t})
                              \cup {[id |-> t.id, left |-> CountdownPeriod]}
           IN  /\ remainingTime' = remaining
               /\ intervals' = IF remaining <= 0 /\ countdownIntervalId # 0
                               THEN Clear(rearmed, countdownIntervalId)
                               ELSE rearmed
        /\ rtHist' = [rtHist EXCEPT !.op = "countdown"]
        /\ UNCHANGED <<sync, syncInFlight, currentAttempt, isRetrying,
                       timeouts, retryTimeoutId, countdownIntervalId, mounted>>
        /\ UNCHANGED outsideRetry

\* RtRetryFire without `isRetrying.value = false`.
RtRetryFire_StaysRetrying ==
    \E t \in timeouts :
        /\ t.left = 0
        /\ rtHist.total < MaxInvocations
        /\ timeouts' = timeouts \ {t}
        /\ sync' = ClientBegin(sync)
        /\ syncInFlight' = syncInFlight + 1
        /\ rtHist' = [rtHist EXCEPT !.op = "retry", !.invocations = @ + 1,
                                    !.total = @ + 1]
        /\ UNCHANGED <<currentAttempt, isRetrying, remainingTime, intervals,
                       retryTimeoutId, countdownIntervalId, mounted>>
        /\ UNCHANGED outsideRetry

\* The callback of a retry timer that is due: isRetrying = false; execute()
RtRetryFire ==
    \E t \in timeouts :
        /\ t.left = 0
        /\ rtHist.total < MaxInvocations
        /\ timeouts' = timeouts \ {t}
        /\ isRetrying' = FALSE
        /\ sync' = ClientBegin(sync)
        /\ syncInFlight' = syncInFlight + 1
        /\ rtHist' = [rtHist EXCEPT !.op = "retry", !.invocations = @ + 1,
                                    !.total = @ + 1]
        /\ UNCHANGED <<currentAttempt, remainingTime, intervals,
                       retryTimeoutId, countdownIntervalId, mounted>>
        /\ UNCHANGED outsideRetry

(***************************************************************************)
(* useCachedInvoke (Advanced Patterns, "Command Caching").                 *)
(* An args object is the sequence of its <<key, value>> properties in      *)
(* insertion order, the order JSON.stringify writes them in.               *)
(***************************************************************************)
Undefined == [t |-> "undefined", v |-> 0, message |-> <<>>]

\* The requests the model draws: a command, and an args object.
Requests ==
    {[command |-> "get_user", args |-> <<<<"a", 1>>, <<"b", 2>>>>],
     [command |-> "get_user", args |-> <<<<"b", 2>>, <<"a", 1>>>>],
     [command |-> "get_user", args |-> <<<<"a", 1>>, <<"b", 3>>>>],
     [command |-> "get_post", args |-> <<<<"a", 1>>, <<"b", 2>>>>]}

\* The results the transport returns to an instance holding old: an object,
\* the number 0, null.
FetchResults(old) == {FreshObject(old), JNum(0), Null}

RECURSIVE StringifyProps(_)
StringifyProps(props) ==
    IF props = <<>> THEN <<>>
    ELSE <<props[1][1], ":", props[1][2]>>
            \o (IF Len(props) > 1 THEN <<",">> ELSE <<>>)
            \o StringifyProps(Tail(props))

\* JSON.stringify(args) inside a template literal, as a sequence of tokens.
Stringify(args) ==
    IF args = Undefined THEN <<"undefined">>
    ELSE <<"{">> \o StringifyProps(args) \o <<"}">>

\* const cacheKey = `${command}:${JSON.stringify(args)}`
CacheKeyOf(command, args) == <<command, ":">> \o Stringify(args)

\* getCachedData with `<=` for `<`.
getCachedData_Inclusive(c, cacheKey, t) ==
    IF cacheKey \in DOMAIN c /\ t - c[cacheKey].timestamp <= c[cacheKey].ttl
    THEN c[cacheKey].data
    ELSE Null

\* getCachedData(), at time t on the map c
getCachedData(c, cacheKey, t) ==
    IF cacheKey \in DOMAIN c /\ t - c[cacheKey].timestamp < c[cacheKey].ttl
    THEN c[cacheKey].data
    ELSE Null

\* setCachedData(data), at time t on the map c
setCachedData(c, cacheKey, data, t, ttl) ==
    [k \in DOMAIN c \cup {cacheKey} |->
        IF k = cacheKey
        THEN [data |-> data, timestamp |-> t, ttl |-> ttl]
        ELSE c[k]]

\* cache.clear() for cache.delete(cacheKey).
CacheDelete_Clear(c, cacheKey) == <<>>

\* cache.delete(cacheKey)
CacheDelete(c, cacheKey) == [k \in DOMAIN c \ {cacheKey} |-> c[k]]

\* data: computed(() => fetchedData.value ?? initialData.value)
ChData(inst) ==
    IF inst.fetched.data # Null THEN inst.fetched.data ELSE inst.initialData

ChHistInit ==
    [op |-> "init", inst |-> 0, immediate |-> FALSE, stored |-> FALSE,
     fetches |-> 0]

\* The history after a step op of instance i that made n calls.
ChStep(op, i, n) ==
    [ChHistInit EXCEPT !.op = op, !.inst = i, !.fetches = chHist.fetches + n]

ChInit ==
    /\ chNow = 0
    /\ cache = <<>>
    /\ chInst = <<>>
    /\ chHist = ChHistInit

\* Time passes.
ChTick ==
    /\ chNow < MaxCacheTime
    /\ chNow' = chNow + 1
    /\ chHist' = ChStep("tick", 0, 0)
    /\ UNCHANGED <<cache, chInst>>
    /\ UNCHANGED outsideCache

\* useCachedInvoke(command, args, { immediate, ttl }): the key, the read of
\* the cache, and useTauriInvoke with immediate: options.immediate &&
\* !cachedData, which calls execute() at once when that is true.
ChCreate ==
    \E request \in Requests, ttl \in 1..MaxTtl, immediate \in BOOLEAN :
        LET command == request.command
            args == request.args
            cacheKey == CacheKeyOf(command, args)
            cachedData == getCachedData(cache, cacheKey, chNow)
            calls == immediate /\ ~Truthy(cachedData)
        IN  /\ Len(chInst) < MaxInstances
            /\ chInst' = Append(chInst,
                    [command |-> command, args |-> args, cacheKey |-> cacheKey,
                     ttl |-> ttl, initialData |-> cachedData,
                     fetched |-> IF calls THEN ClientBegin(ClientInit)
                                          ELSE ClientInit,
                     inFlight |-> IF calls THEN 1 ELSE 0])
            /\ chHist' = [ChStep("create", Len(chInst) + 1,
                                 IF calls THEN 1 ELSE 0)
                             EXCEPT !.immediate = immediate]
            /\ UNCHANGED <<chNow, cache>>
            /\ UNCHANGED outsideCache

\* execute() of instance i, called by its user.
ChExecute ==
    \E i \in DOMAIN chInst :
        /\ chHist.fetches < MaxFetches
        /\ chInst[i].inFlight < MaxFetchesInFlight
        /\ chInst' = [chInst EXCEPT ![i].fetched = ClientBegin(@),
                                    ![i].inFlight = @ + 1]
        /\ chHist' = ChStep("execute", i, 1)
        /\ UNCHANGED <<chNow, cache>>
        /\ UNCHANGED outsideCache

\* refresh() of instance i: cache.delete(cacheKey), then execute().
ChRefresh ==
    \E i \in DOMAIN chInst :
        /\ chHist.fetches < MaxFetches
        /\ chInst[i].inFlight < MaxFetchesInFlight
        /\ cache' = CacheDelete(cache, chInst[i].cacheKey)
        /\ chInst' = [chInst EXCEPT ![i].fetched = ClientBegin(@),
                                    ![i].inFlight = @ + 1]
        /\ chHist' = ChStep("refresh", i, 1)
        /\ UNCHANGED chNow
        /\ UNCHANGED outsideCache

\* The command of instance i succeeds with value: fetchedData is set, and
\* watch(fetchedData) runs when it changed.
ChSettleSuccess ==
    \E i \in DOMAIN chInst :
        \E value \in FetchResults(chInst[i].fetched.data) :
            LET inst == chInst[i]
                stores == value # inst.fetched.data /\ value # Null
            IN  /\ inst.inFlight > 0
                /\ cache' = IF stores
                            THEN setCachedData(cache, inst.cacheKey, value,
                                               chNow, inst.ttl)
                            ELSE cache
                /\ chInst' = [chInst EXCEPT
                        ![i].fetched =
                            ClientSettle(@, [ok |-> TRUE, value |-> value]),
                        ![i].inFlight = @ - 1,
                        ![i].initialData = IF stores THEN value ELSE @]
                /\ chHist' = [ChStep("success", i, 0) EXCEPT !.stored = stores]
                /\ UNCHANGED chNow
                /\ UNCHANGED outsideCache

\* ChSettleFailure with the failure written to the cache.
ChSettleFailure_Stores ==
    \E i \in DOMAIN chInst :
        /\ chInst[i].inFlight > 0
        /\ cache' = setCachedData(cache, chInst[i].cacheKey, ConnectionTimeout,
                                  chNow, chInst[i].ttl)
        /\ chInst' = [chInst EXCEPT
                ![i].fetched =
                    ClientSettle(@, [ok |-> FALSE, error |-> ConnectionTimeout]),
                ![i].inFlight = @ - 1]
        /\ chHist' = ChStep("failure", i, 0)
        /\ UNCHANGED chNow
        /\ UNCHANGED outsideCache

\* The command of instance i fails: error is set, fetchedData is not.
ChSettleFailure ==
    \E i \in DOMAIN chInst :
        /\ chInst[i].inFlight > 0
        /\ chInst' = [chInst EXCEPT
                ![i].fetched =
                    ClientSettle(@, [ok |-> FALSE, error |-> ConnectionTimeout]),
                ![i].inFlight = @ - 1]
        /\ chHist' = ChStep("failure", i, 0)
        /\ UNCHANGED <<chNow, cache>>
        /\ UNCHANGED outsideCache

(***************************************************************************)
(* useBatchOperations (Advanced Patterns, "Batch Operations").             *)
(* processBatch is debounce(fn, 50) of lodash-es: every call restarts a    *)
(* 50 ms timer and fn runs when the timer expires.  An operation is the    *)
(* record [id, command, args, gap]; id is the rank of its addOperation     *)
(* call and names its promise, gap is the time since the call before it    *)
(* (history).                                                              *)
(***************************************************************************)
DebounceWait == 50
\* How far time advances in one step.
DebounceStep == 25
NoTimer == 0 - 1

\* The (command, args) pairs the callers of addOperation pass.
BatchRequests ==
    {[command |-> "get_user", args |-> 1], [command |-> "get_post", args |-> 2]}

\* What execute_batch_operations returns for one operation.
ResultOf(op) == [t |-> "result", v |-> op.id, message |-> <<>>]
\* The failure of the transport, and the TypeError of `results[index]` when
\* results is undefined.
TransportFailure == Err(<<"batch", "failed">>)
ResultsUndefined ==
    [t |-> "TypeError", v |-> 0,
     message |-> <<"Cannot", "read", "properties", "of", "undefined">>]

PendingPromise == [state |-> "pending", value |-> Null]

\* operations.forEach((op, index) => op.resolve(results[index]))
ResolveAll(promises, operations, results) ==
    [id \in DOMAIN promises |->
        IF \E n \in DOMAIN operations : operations[n].id = id
        THEN LET n == CHOOSE n \in DOMAIN operations : operations[n].id = id
             IN  IF promises[id].state = "pending"
                 THEN [state |-> "resolved", value |-> results[n]]
                 ELSE promises[id]
        ELSE promises[id]]

\* operations.forEach((op) => op.reject(error))
RejectAll(promises, operations, error) ==
    [id \in DOMAIN promises |->
        IF (\E n \in DOMAIN operations : operations[n].id = id)
              /\ promises[id].state = "pending"
        THEN [state |-> "rejected", value |-> error]
        ELSE promises[id]]

BtInit ==
    /\ pendingOperations = <<>>
    /\ isProcessing = FALSE
    /\ btTimer = NoTimer
    /\ btOperations = <<>>
    /\ btPromises = <<>>
    /\ btSent = <<>>
    /\ btSinceAdd = 0
    /\ btHist = "init"

\* addOperation without the restart of a running debounce timer.
BtAddOperation_NoRestart ==
    \E request \in BatchRequests :
        LET id == Len(btPromises) + 1
        IN  /\ id <= MaxOperations
            /\ btPromises' = Append(btPromises, PendingPromise)
            /\ pendingOperations' =
                    Append(pendingOperations,
                           [id |-> id, command |-> request.command,
                            args |-> request.args, gap |-> btSinceAdd])
            /\ btTimer' = IF btTimer = NoTimer THEN DebounceWait ELSE btTimer
            /\ btSinceAdd' = 0
            /\ btHist' = "add"
            /\ UNCHANGED <<isProcessing, btOperations, btSent>>
            /\ UNCHANGED outsideBatch

\* addOperation(command, args): the push, and the call of the debounced
\* processBatch, which (re)starts the timer.
BtAddOperation ==
    \E request \in BatchRequests :
        LET id == Len(btPromises) + 1
        IN  /\ id <= MaxOperations
            /\ btPromises' = Append(btPromises, PendingPromise)
            /\ pendingOperations' =
                    Append(pendingOperations,
                           [id |-> id, command |-> request.command,
                            args |-> request.args, gap |-> btSinceAdd])
            /\ btTimer' = DebounceWait
            /\ btSinceAdd' = 0
            /\ btHist' = "add"
            /\ UNCHANGED <<isProcessing, btOperations, btSent>>
            /\ UNCHANGED outsideBatch

\* Time passes while the debounce timer runs, no further than its expiry.
BtAdvance ==
    /\ btTimer > 0
    /\ btTimer' = Max(btTimer - DebounceStep, 0)
    /\ btSinceAdd' = Min(btSinceAdd + DebounceStep, DebounceWait)
    /\ btHist' = "advance"
    /\ UNCHANGED <<pendingOperations, isProcessing, btOperations, btPromises,
                   btSent>>
    /\ UNCHANGED outsideBatch

\* The timer expires and processBatch returns at once:
\* if (isProcessing.value || pendingOperations.value.length === 0) return
BtFireSkipped ==
    /\ btTimer = 0
    /\ isProcessing \/ Len(pendingOperations) = 0
    /\ btTimer' = NoTimer
    /\ btHist' = "skipped"
    /\ UNCHANGED <<pendingOperations, isProcessing, btOperations, btPromises,
                   btSent, btSinceAdd>>
    /\ UNCHANGED outsideBatch

\* The timer expires and processBatch takes the pending operations and
\* calls executeBatch with them, up to the await.
BtFireSend ==
    /\ btTimer = 0
    /\ ~(isProcessing \/ Len(pendingOperations) = 0)
    /\ btTimer' = NoTimer
    /\ isProcessing' = TRUE
    /\ btOperations' = pendingOperations
    /\ pendingOperations' = <<>>
    /\ btSent' = Append(btSent,
                        [n \in DOMAIN pendingOperations |->
                            [command |-> pendingOperations[n].command,
                             args |-> pendingOperations[n].args]])
    /\ btHist' = "send"
    /\ UNCHANGED <<btPromises, btSinceAdd>>
    /\ UNCHANGED outsideBatch

\* The body of processBatch after executeBatch resolved with results (an
\* array, or undefined: then results[index] throws inside the try block).
BtResolved(results) ==
    /\ btPromises' =
            IF results.t = "undefined"
            THEN RejectAll(btPromises, btOperations, ResultsUndefined)
            ELSE ResolveAll(btPromises, btOperations, results.v)
    /\ isProcessing' = FALSE
    /\ btOperations' = <<>>
    /\ UNCHANGED <<pendingOperations, btTimer, btSent, btSinceAdd>>
    /\ UNCHANGED outsideBatch

\* The grouped command succeeded and executeBatch resolves with its
\* results, as processBatch expects.
BtSettleResults ==
    /\ isProcessing
    /\ BtResolved([t |-> "array",
                   v |-> [n \in DOMAIN btOperations |->
                            ResultOf(btOperations[n])],
                   message |-> <<>>])
    /\ btHist' = "successResults"

\* The grouped command succeeded and executeBatch resolves with undefined:
\* execute of useTauriInvoke is documented as () => Promise<void>, the
\* result goes to its data ref.
BtSettleVoid ==
    /\ isProcessing
    /\ BtResolved(Undefined)
    /\ btHist' = "successVoid"

\* The grouped command failed and useTauriInvoke caught the failure:
\* executeBatch resolves with undefined.
BtSettleFailureCaught ==
    /\ isProcessing
    /\ BtResolved(Undefined)
    /\ btHist' = "failureCaught"

\* The grouped command failed and executeBatch rejects with the failure:
\* the catch block of processBatch.
BtSettleFailureThrown ==
    /\ isProcessing
    /\ btPromises' = RejectAll(btPromises, btOperations, TransportFailure)
    /\ isProcessing' = FALSE
    /\ btOperations' = <<>>
    /\ btHist' = "failureThrown"
    /\ UNCHANGED <<pendingOperations, btTimer, btSent, btSinceAdd>>
    /\ UNCHANGED outsideBatch

(***************************************************************************)
(* mockUseTauriInvoke (Advanced Patterns, "Mocking for Unit Tests"): the   *)
(* invocation client as these sources implement it.  Every execute() waits *)
(* on a timer of 100 ms of its own.                                        *)
(***************************************************************************)
MockDelay == 100
\* How far time advances in one step.
MockStep == 50

\* The arguments the model draws.
MockDataChoices == {FreshObject(Null), JNum(0), Null}
MockErrorChoices == {Undefined, ConnectionTimeout}

\* History: the last step (op), the ref its settle wrote, the calls of
\* execute / refresh so far, what the promise of the call the step belongs
\* to has done, and whether some call was made while another was in flight.
MkHistInit ==
    [op |-> "init", wrote |-> "none", calls |-> 0, promise |-> "none",
     overlapped |-> FALSE]

\* mockUseTauriInvoke(data, error)
MkConstructed(data, error) ==
    /\ mockData = data
    /\ mockError = error
    /\ mkData = data
    /\ mkPending = FALSE
    /\ mkError = (IF Truthy(error) THEN error ELSE Null)
    /\ mkTimers = {}
    /\ mkHist = MkHistInit

\* execute() that drops the timer of the call before it.
MkExecute_CancelsPrevious ==
    /\ mkHist.calls < MaxMockCalls
    /\ mkPending' = TRUE
    /\ mkTimers' = {[id |-> mkHist.calls + 1, left |-> MockDelay,
                     data |-> mkData]}
    /\ mkHist' = [op |-> "execute", wrote |-> "none",
                  calls |-> mkHist.calls + 1, promise |-> "pending",
                  overlapped |-> mkHist.overlapped \/ mkTimers # {}]
    /\ UNCHANGED <<mockData, mockError, mkData, mkError>>
    /\ UNCHANGED outsideMock

\* execute(), up to the await.  The timer keeps, as history, the value
\* data had at the call.
MkExecute ==
    /\ mkHist.calls < MaxMockCalls
    /\ mkPending' = TRUE
    /\ mkTimers' = mkTimers \cup {[id |-> mkHist.calls + 1, left |-> MockDelay,
                                   data |-> mkData]}
    /\ mkHist' = [op |-> "execute", wrote |-> "none",
                  calls |-> mkHist.calls + 1, promise |-> "pending",
                  overlapped |-> mkHist.overlapped \/ mkTimers # {}]
    /\ UNCHANGED <<mockData, mockError, mkData, mkError>>
    /\ UNCHANGED outsideMock

\* refresh(): `refresh: execute`, the same function under another name.
MkRefresh ==
    /\ mkHist.calls < MaxMockCalls
    /\ mkPending' = TRUE
    /\ mkTimers' = mkTimers \cup {[id |-> mkHist.calls + 1, left |-> MockDelay,
                                   data |-> mkData]}
    /\ mkHist' = [op |-> "refresh", wrote |-> "none",
                  calls |-> mkHist.calls + 1, promise |-> "pending",
                  overlapped |-> mkHist.overlapped \/ mkTimers # {}]
    /\ UNCHANGED <<mockData, mockError, mkData, mkError>>
    /\ UNCHANGED outsideMock

\* Time passes, no further than to the moment the next timer is due.
MkAdvance ==
    /\ mkTimers # {}
    /\ \A t \in mkTimers : t.left > 0
    /\ \E d \in {MockStep} \cup {t.left : t \in mkTimers} :
          /\ \A t \in mkTimers : d <= t.left
          /\ mkTimers' = {[t EXCEPT !.left = @ - d] : t \in mkTimers}
    /\ mkHist' = [mkHist EXCEPT !.op = "advance", !.wrote = "none",
                                !.promise = "none"]
    /\ UNCHANGED <<mockData, mockError, mkData, mkPending, mkError>>
    /\ UNCHANGED outsideMock

\* MkSettleError with `throw mockError` after the assignment.
MkSettleError_Rejects ==
    \E t \in mkTimers :
        /\ t.left = 0
        /\ Truthy(mockError)
        /\ mkTimers' = mkTimers \ {t}
        /\ mkPending' = FALSE
        /\ mkError' = mockError
        /\ mkHist' = [mkHist EXCEPT !.op = "settle", !.wrote = "error",
                                    !.promise = "rejected"]
        /\ UNCHANGED <<mockData, mockError, mkData>>
        /\ UNCHANGED outsideMock

\* MkSettleError with `data.value = null` added.
MkSettleError_ClearsData ==
    \E t \in mkTimers :
        /\ t.left = 0
        /\ Truthy(mockError)
        /\ mkTimers' = mkTimers \ {t}
        /\ mkPending' = FALSE
        /\ mkError' = mockError
        /\ mkData' = Null
        /\ mkHist' = [mkHist EXCEPT !.op = "settle", !.wrote = "error",
                                    !.promise = "resolved"]
        /\ UNCHANGED <<mockData, mockError>>
        /\ UNCHANGED outsideMock

\* The timer of a call is due: the rest of execute(), with mockError.  The
\* async function ends without a throw: its promise resolves.
MkSettleError ==
    \E t \in mkTimers :
        /\ t.left = 0
        /\ Truthy(mockError)
        /\ mkTimers' = mkTimers \ {t}
        /\ mkPending' = FALSE
        /\ mkError' = mockError
        /\ mkHist' = [mkHist EXCEPT !.op = "settle", !.wrote = "error",
                                    !.promise = "resolved"]
        /\ UNCHANGED <<mockData, mockError, mkData>>
        /\ UNCHANGED outsideMock

\* The timer of a call is due: the rest of execute(), without mockError.
MkSettleData ==
    \E t \in mkTimers :
        /\ t.left = 0
        /\ ~Truthy(mockError)
        /\ mkTimers' = mkTimers \ {t}
        /\ mkPending' = FALSE
        /\ mkData' = mockData
        /\ mkHist' = [mkHist EXCEPT !.op = "settle", !.wrote = "data",
                                    !.promise = "resolved"]
        /\ UNCHANGED <<mockData, mockError, mkError>>
        /\ UNCHANGED outsideMock

\* A mock with no call made yet, for any arguments of the model.
MkInit ==
    \E data \in MockDataChoices, error \in MockErrorChoices :
        MkConstructed(data, error)

\* The mock at rest, while another component is looked at.
MkIdle == MkConstructed(Null, Undefined)

(***************************************************************************)
(* calculateDelay as the retries of one session apply it: the k-th retry   *)
(* passes the attempt index k - 1 (currentAttempt.value - 1 after the      *)
(* increment).  The indices run past maxRetries - 1, where startRetry      *)
(* stops, so that the function is exercised beyond the 30000 ms cap.       *)
(***************************************************************************)
\* Values of Math.random() * 1000, which lies in [0, 1000).
DelayJitters == {0, 1, 250, 500, 750, 999}

DlInit ==
    /\ dlIndex = 0
    /\ dlDelay = 0
    /\ dlPrev = 0

\* const delay = calculateDelay(currentAttempt.value - 1), of the next retry
DlRetry ==
    \E jitter \in DelayJitters :
        /\ dlIndex < MaxAttempt
        /\ dlDelay' = calculateDelay(dlIndex, jitter)
        /\ dlPrev' = dlDelay
        /\ dlIndex' = dlIndex + 1
        /\ UNCHANGED outsideDelay

(***************************************************************************)
(* Specifications: one per component, the others at rest.                  *)
(***************************************************************************)
\* The breaker, constructed with any options of the bounds.
InitBreaker ==
    /\ \E options \in [failureThreshold : 1..MaxThreshold,
                        resetTimeout : 1..MaxResetTimeout] :
            CbConstructed(options)
    /\ RtInit
    /\ DlInit
    /\ ChInit
    /\ BtInit
    /\ MkIdle

\* The retry component, mounted.
InitRetry ==
    /\ CbConstructed([failureThreshold |-> 1, resetTimeout |-> 1])
    /\ RtInit
    /\ DlInit
    /\ ChInit
    /\ BtInit
    /\ MkIdle

\* The cache, empty, and no instance of useCachedInvoke yet.
InitCache ==
    /\ CbConstructed([failureThreshold |-> 1, resetTimeout |-> 1])
    /\ RtInit
    /\ DlInit
    /\ ChInit
    /\ BtInit
    /\ MkIdle

\* useBatchOperations(), nothing added yet.
InitBatch ==
    /\ CbConstructed([failureThreshold |-> 1, resetTimeout |-> 1])
    /\ RtInit
    /\ DlInit
    /\ ChInit
    /\ BtInit
    /\ MkIdle

\* mockUseTauriInvoke(mockData, mockError), for any arguments.
InitMock ==
    /\ CbConstructed([failureThreshold |-> 1, resetTimeout |-> 1])
    /\ RtInit
    /\ DlInit
    /\ ChInit
    /\ BtInit
    /\ MkInit

\* The delays of one retry session.
InitDelay ==
    /\ CbConstructed([failureThreshold |-> 1, resetTimeout |-> 1])
    /\ RtInit
    /\ DlInit
    /\ ChInit
    /\ BtInit
    /\ MkIdle

CbNext ==
    \/ CbTick
    \/ CbReadCanExecute
    \/ CbExecuteRejected
    \/ CbExecuteAdmitted
    \/ CbSettleSuccess
    \/ CbSettleFailureCaught
    \/ CbSettleFailureThrown

\* The circuit breaker alone.
SpecBreaker == InitBreaker /\ [][CbNext]_vars

RtNext ==
    \/ RtStartSync
    \/ RtCancelClick
    \/ RtUnmount
    \/ RtSettleSuccess
    \/ RtSettleFailure
    \/ RtAdvance
    \/ RtCountdownTick
    \/ RtRetryFire

\* The retry component alone.
SpecRetry == InitRetry /\ [][RtNext]_vars

DlNext == DlRetry

ChNext ==
    \/ ChTick
    \/ ChCreate
    \/ ChExecute
    \/ ChRefresh
    \/ ChSettleSuccess
    \/ ChSettleFailure

\* The cache and the useCachedInvoke instances alone.
SpecCache == InitCache /\ [][ChNext]_vars

BtSettle ==
    \/ BtSettleResults
    \/ BtSettleVoid
    \/ BtSettleFailureCaught
    \/ BtSettleFailureThrown

BtNext ==
    \/ BtAddOperation
    \/ BtAdvance
    \/ BtFireSkipped
    \/ BtFireSend
    \/ BtSettleResults
    \/ BtSettleVoid
    \/ BtSettleFailureCaught
    \/ BtSettleFailureThrown

\* useBatchOperations alone.
SpecBatch == InitBatch /\ [][BtNext]_vars

MkNext ==
    \/ MkExecute
    \/ MkRefresh
    \/ MkAdvance
    \/ MkSettleError
    \/ MkSettleData

\* mockUseTauriInvoke alone.
SpecMock == InitMock /\ [][MkNext]_vars

\* useBatchOperations with time passing, due timers firing and every
\* executeBatch call completing; addOperation is called finitely often.
SpecBatchLive ==
    /\ SpecBatch
    /\ WF_vars(BtAdvance)
    /\ WF_vars(BtFireSkipped)
    /\ WF_vars(BtFireSend)
    /\ WF_vars(BtSettle)

\* calculateDelay alone.
SpecDelay == InitDelay /\ [][DlNext]_vars

(***************************************************************************)
(* Properties of useCircuitBreaker, checked under SpecBreaker.             *)
(***************************************************************************)
WrappedFailed == cbHist.op \in {"failureCaught", "failureThrown"}

\* C1: from a fresh breaker with failureThreshold N, after k <= N calls whose
\* wrapped operation failed (and none that succeeded) failureCount = k and
\* lastFailureTime is the time of the last failure; the phase is CLOSED
\* while k < N, and after the N-th failure it is OPEN with nextAttemptTime =
\* that time + resetTimeout and canExecute reads false.
C1_OpensAfterThresholdFailures ==
    (WrappedFailed /\ cbHist.succeeded = 0
        /\ cbHist.failed <= cbOptions.failureThreshold) =>
        /\ circuitState.failureCount = cbHist.failed
        /\ circuitState.lastFailureTime = now
        /\ cbHist.failed < cbOptions.failureThreshold
              => circuitState.state = "CLOSED"
        /\ cbHist.failed = cbOptions.failureThreshold
              => /\ circuitState.state = "OPEN"
                 /\ circuitState.nextAttemptTime = now + cbOptions.resetTimeout
                 /\ ~ReadCanExecute(canExecuteCache, circuitState, now).value

\* C2: an execute() called while canExecute is false ends with the
\* CircuitOpen error exposed as the breaker's error and does not call the
\* wrapped operation.
C2_ShortCircuit ==
    [][(/\ cbHist'.op \in {"rejected", "admitted"}
        /\ ~ReadCanExecute(canExecuteCache, circuitState, now).value)
       => /\ CbExposedError' = CircuitOpenError
          /\ rawInFlight' = rawInFlight
          /\ raw' = raw
          /\ cbHist'.calls = cbHist.calls]_vars

C2_Witness ==
    /\ cbHist.op = "rejected"
    /\ circuitState.state = "OPEN"
    /\ CbExposedError = CircuitOpenError
    /\ rawInFlight = 0

\* C3: an execute() rejected with CircuitOpen leaves failureCount,
\* lastFailureTime, nextAttemptTime and the phase as they were.
C3_RejectionNotCounted ==
    [][cbHist'.op = "rejected" => circuitState' = circuitState]_vars

C3_Witness ==
    /\ cbHist.op = "rejected"
    /\ circuitState.failureCount >= cbOptions.failureThreshold
    /\ now > circuitState.lastFailureTime
    /\ now < circuitState.nextAttemptTime

\* C4: when the phase is OPEN and now >= nextAttemptTime, a check of
\* canExecute (a read of it, or the one execute() makes) returns true and
\* moves the phase to HALF_OPEN.
C4_RecoversAfterResetTimeout ==
    [][(/\ circuitState.state = "OPEN"
        /\ now >= circuitState.nextAttemptTime
        /\ cbHist'.op \in {"read", "rejected", "admitted"})
       => /\ cbHist'.canExecute
          /\ circuitState'.state = "HALF_OPEN"]_vars

\* C5: a successful call of the wrapped operation while the phase is
\* HALF_OPEN leaves the breaker CLOSED with failureCount = 0, lastFailureTime
\* and nextAttemptTime cleared, and the breaker's error cleared.
C5_TrialSuccessCloses ==
    (cbHist.op = "success" /\ cbHist.before = "HALF_OPEN") =>
        /\ circuitState.state = "CLOSED"
        /\ circuitState.failureCount = 0
        /\ circuitState.lastFailureTime = 0
        /\ circuitState.nextAttemptTime = 0
        /\ cbError = Null

C5_Witness ==
    /\ cbHist.op = "success"
    /\ cbHist.before = "HALF_OPEN"
    /\ circuitState.state = "CLOSED"
    /\ cbHist.failed >= cbOptions.failureThreshold

C24_RejectedOnlyBeforeNextAttempt ==
    cbHist.op = "rejected" =>
        /\ circuitState.state = "OPEN"
        /\ circuitState.nextAttemptTime > 0
        /\ now < circuitState.nextAttemptTime

\* C25: HALF_OPEN admits a single trial call: an execute() made while the
\* phase is HALF_OPEN and a call is in flight does not call the wrapped
\* operation.
C25_SingleTrialInHalfOpen ==
    [][(/\ circuitState.state = "HALF_OPEN"
        /\ rawInFlight >= 1
        /\ cbHist'.op \in {"admitted", "rejected"})
       => /\ rawInFlight' = rawInFlight
          /\ cbHist'.calls = cbHist.calls]_vars

\* The changes of phase a circuit breaker makes.
PhaseEdges ==
    {<<"CLOSED", "OPEN">>, <<"OPEN", "HALF_OPEN">>, <<"HALF_OPEN", "CLOSED">>,
     <<"HALF_OPEN", "OPEN">>}

\* C34: whatever calls overlap, a step changes the phase only along
\* CLOSED -> OPEN, OPEN -> HALF_OPEN, HALF_OPEN -> CLOSED, HALF_OPEN -> OPEN;
\* never from OPEN to CLOSED.
C34_PhaseEdges ==
    [][circuitState'.state # circuitState.state =>
          <<circuitState.state, circuitState'.state>> \in PhaseEdges]_vars

\* C35: OPEN and HALF_OPEN go with failureCount >= failureThreshold, CLOSED
\* with failureCount < failureThreshold; the step from OPEN to HALF_OPEN
\* leaves failureCount as it was.
C35_PhaseAndFailureCount ==
    [][/\ circuitState'.state \in {"OPEN", "HALF_OPEN"}
             => circuitState'.failureCount >= cbOptions'.failureThreshold
       /\ circuitState'.state = "CLOSED"
             => circuitState'.failureCount < cbOptions'.failureThreshold
       /\ (circuitState.state = "OPEN" /\ circuitState'.state = "HALF_OPEN")
             => circuitState'.failureCount = circuitState.failureCount]_vars

\* A trial call is in flight in HALF_OPEN, the failures still counted.
C35_Witness ==
    /\ circuitState.state = "HALF_OPEN"
    /\ circuitState.failureCount >= cbOptions.failureThreshold
    /\ cbOptions.failureThreshold > 1
    /\ rawInFlight > 0

\* The last step was a call of the wrapped operation that resolved.
WrappedResolved == cbHist.op \in {"success", "failureCaught"}

\* C36: an execute() that succeeds while the phase is CLOSED leaves the
\* circuit state, failureCount included, as it was; failureCount goes down
\* only by a success observed while the phase is not CLOSED, and then to 0.
C36_FailuresCumulative ==
    [][/\ (WrappedResolved' /\ circuitState.state = "CLOSED")
             => circuitState' = circuitState
       /\ circuitState'.failureCount < circuitState.failureCount
             => /\ WrappedResolved'
                /\ circuitState.state # "CLOSED"
                /\ circuitState'.failureCount = 0]_vars

\* A call succeeded in CLOSED after a failure had been counted, and the
\* failure is still counted.
C36_Witness ==
    /\ cbHist.op = "success"
    /\ cbHist.before = "CLOSED"
    /\ circuitState.state = "CLOSED"
    /\ circuitState.failureCount > 0

(***************************************************************************)
(* Properties of the retry component, checked under SpecRetry.             *)
(***************************************************************************)
\* The message says 'permission' or 'unauthorized'.
PermissionRelated(e) ==
    \/ Includes(e.message, <<"permission">>)
    \/ Includes(e.message, <<"unauthorized">>)

\* C7: in a session begun by one startSync in which every attempt so far
\* failed with a retryable error (and nobody cancelled), the operation has
\* been invoked at most maxRetries + 1 times; when no attempt is in flight,
\* either the next retry is scheduled, or the operation has been invoked
\* exactly maxRetries + 1 times and the controller is settled as failed:
\* error set, not retrying, no retry scheduled.
C7_RetryExhaustion ==
    (mounted /\ rtHist.clean) =>
        /\ rtHist.invocations <= maxRetries + 1
        /\ syncInFlight = 0 =>
              \/ /\ timeouts # {}
                 /\ isRetrying
                 /\ rtHist.invocations <= maxRetries
              \/ /\ timeouts = {}
                 /\ ~isRetrying
                 /\ rtHist.invocations = maxRetries + 1
                 /\ currentAttempt = maxRetries
                 /\ Truthy(sync.error)
                 /\ ~sync.pending

C7_Witness ==
    /\ mounted
    /\ rtHist.clean
    /\ rtHist.op = "failure"
    /\ rtHist.invocations = maxRetries + 1
    /\ timeouts = {}
    /\ Truthy(sync.error)

\* C8: when an attempt fails with an error whose message contains
\* 'permission' or 'unauthorized', no retry is scheduled: the attempt
\* counter is not incremented, the retrying flag stays false, and the
\* failure is the settled error.
C8_NonRetryableFailure ==
    [][(mounted /\ rtHist'.op = "failure" /\ PermissionRelated(sync'.error))
       => /\ currentAttempt' = currentAttempt
          /\ ~isRetrying /\ ~isRetrying'
          /\ timeouts' = {}
          /\ intervals' = intervals
          /\ Truthy(sync'.error)
          /\ ~sync'.pending]_vars

C8_Witness ==
    /\ mounted
    /\ rtHist.op = "failure"
    /\ PermissionRelated(sync.error)
    /\ currentAttempt > 0
    /\ timeouts = {}
    /\ ~isRetrying

\* C9: after cancelRetry(), called in any state by the Cancel button or on
\* unmount, attempt = 0, the retrying flag is false and no retry timer is
\* left to fire; when no timer and no countdown was scheduled the call
\* changes nothing else.
C9_CancelClearsRetry ==
    [][rtHist'.op \in {"cancel", "unmount"}
       => /\ currentAttempt' = 0
          /\ ~isRetrying'
          /\ timeouts' = {}
          /\ (timeouts = {} /\ intervals = {})
                => UNCHANGED <<sync, syncInFlight, remainingTime, timeouts,
                               intervals, retryTimeoutId,
                               countdownIntervalId>>]_vars

C9_Witness ==
    /\ rtHist.op = "cancel"
    /\ rtHist.invocations >= 2
    /\ currentAttempt = 0
    /\ timeouts = {}
    /\ remainingTime > 0

\* C10: whenever an attempt of the retried operation succeeds, whatever
\* value it returns, the attempt counter is 0 afterwards and no retry
\* remains scheduled.
C10_SuccessResetsAttempt ==
    (mounted /\ rtHist.op = "success") =>
        /\ currentAttempt = 0
        /\ timeouts = {}

\* C26: the attempt counter stays within 0..maxRetries, and once it has
\* reached maxRetries no step schedules a retry timer.
C26_AttemptBounded ==
    [][/\ currentAttempt' \in 0..maxRetries
       /\ currentAttempt = maxRetries
             => Ids(timeouts') \subseteq Ids(timeouts)]_vars

\* The attempt made after the last retry has failed, and nothing is
\* scheduled.
C26_Witness ==
    /\ mounted
    /\ rtHist.op = "failure"
    /\ IsRetryable(sync.error)
    /\ currentAttempt = maxRetries
    /\ ~isRetrying
    /\ timeouts = {}

\* The failures that are not transient: permission-related, a malformed
\* call, the rejection of an open circuit breaker.
NotTransient(e) ==
    \/ PermissionRelated(e)
    \/ e = InvalidArgument
    \/ e = CircuitOpenError

\* C28: an attempt that fails with a failure that is not transient
\* schedules no retry: no retry timer is added, the attempt counter and the
\* retrying flag stay as they were.
C28_OnlyTransientRetried ==
    [][(mounted /\ rtHist'.op = "failure" /\ NotTransient(sync'.error))
       => /\ Ids(timeouts') \subseteq Ids(timeouts)
          /\ currentAttempt' = currentAttempt
          /\ isRetrying' = isRetrying]_vars

\* C37: at most one retry timer is scheduled, and isRetrying is true
\* exactly while one is; a step that schedules a retry finds none waiting.
C37_SingleRetryTimer ==
    [][/\ Cardinality(timeouts') <= 1
       /\ isRetrying' <=> timeouts' # {}
       /\ ~(Ids(timeouts') \subseteq Ids(timeouts)) => timeouts = {}]_vars

\* A retry is waiting.
C37_Witness ==
    /\ isRetrying
    /\ Cardinality(timeouts) = 1
    /\ currentAttempt >= 2
    /\ \E t \in timeouts : t.id = retryTimeoutId /\ t.left > 0

\* C38: at most one countdown interval is live, remainingTime is never
\* negative, and no countdown interval is left running after cancel.
C38_SingleCountdown ==
    /\ Cardinality(intervals) <= 1
    /\ remainingTime >= 0
    /\ rtHist.op = "cancel" => intervals = {}

(***************************************************************************)
(* Properties of calculateDelay, checked under SpecDelay.                  *)
(***************************************************************************)
\* The attempt index of the last retry scheduled.
DlLast == dlIndex - 1

\* C11: the delay before the i-th retry (i = 0 for the first) is
\* min(baseDelay * 2^i + jitter, 30000) for a jitter in [0, 1000): it is at
\* most 30000 and at least min(baseDelay * 2^i, 30000).
C11_BackoffDelay ==
    dlIndex > 0 =>
        /\ \E jitter \in 0..999 :
              dlDelay = Min(baseDelay * Pow2(DlLast) + jitter, 30000)
        /\ dlDelay <= 30000
        /\ dlDelay >= Min(baseDelay * Pow2(DlLast), 30000)

\* A delay below the cap with jitter, and a delay held at the cap.
C11_Witness ==
    /\ dlDelay = 30000
    /\ dlPrev > baseDelay * Pow2(DlLast - 1)
    /\ dlPrev < 30000

\* C27: the delay of a retry is never shorter than the delay of the retry
\* before it, whatever the jitter of either.
C27_DelaysNonDecreasing ==
    dlIndex >= 2 => dlDelay >= dlPrev

\* The closest pair: the largest jitter on a retry, none on the next, both
\* below the cap.
C27_Witness ==
    /\ dlIndex >= 2
    /\ dlPrev = baseDelay * Pow2(dlIndex - 2) + 999
    /\ dlDelay = baseDelay * Pow2(dlIndex - 1)
    /\ dlDelay < DelayCap

(***************************************************************************)
(* Properties of useCachedInvoke, checked under SpecCache.                 *)
(***************************************************************************)
\* The instance the last step created or acted on.
ChActed == chInst[chHist.inst]

\* The entry of key k in map c is there and younger than its ttl at time t.
Unexpired(c, k, t) == k \in DOMAIN c /\ t - c[k].timestamp < c[k].ttl

\* C12: a value v stored for key k at time t with ttl d is what a read of k
\* at time u returns when u - t < d, and the read returns absent when
\* u - t >= d (or when there is no entry): a store writes (v, t, d), and the
\* read that useCachedInvoke makes at creation returns the entry's value
\* exactly when the entry's age is below its ttl.
C12_CacheExpiry ==
    [][/\ chHist'.op = "create" =>
            LET k == ChActed'.cacheKey
            IN  /\ (k \in DOMAIN cache /\ chNow - cache[k].timestamp < cache[k].ttl)
                      => ChActed'.initialData = cache[k].data
                /\ (k \in DOMAIN cache /\ chNow - cache[k].timestamp >= cache[k].ttl)
                      => ChActed'.initialData = Null
                /\ k \notin DOMAIN cache => ChActed'.initialData = Null
       /\ chHist'.stored =>
            cache'[ChActed'.cacheKey] =
                [data |-> ChActed'.fetched.data, timestamp |-> chNow,
                 ttl |-> ChActed'.ttl]]_vars

\* An instance created when the entry of its key is exactly ttl old.
C12_Witness ==
    /\ chHist.op = "create"
    /\ ChActed.cacheKey \in DOMAIN cache
    /\ chNow - cache[ChActed.cacheKey].timestamp = cache[ChActed.cacheKey].ttl
    /\ ChActed.initialData = Null

\* C13: useCachedInvoke with immediate: true for a key with an unexpired
\* entry, whatever its value, calls nothing and exposes the cached value;
\* for a key with no entry or an expired one it makes exactly one call, and
\* the first success of the instance stores its (non-null) result under the
\* key with storedAt = now.
C13_CachedHitMiss ==
    [][/\ (chHist'.op = "create" /\ chHist'.immediate) =>
            LET k == ChActed'.cacheKey
            IN  IF Unexpired(cache, k, chNow)
                THEN /\ ChActed'.inFlight = 0
                     /\ chHist'.fetches = chHist.fetches
                     /\ ChData(ChActed') = cache[k].data
                ELSE /\ ChActed'.inFlight = 1
                     /\ chHist'.fetches = chHist.fetches + 1
       /\ (chHist'.op = "success" /\ chInst[chHist'.inst].fetched.data = Null
               /\ ChActed'.fetched.data # Null) =>
            /\ ChActed'.cacheKey \in DOMAIN cache'
            /\ cache'[ChActed'.cacheKey] =
                    [data |-> ChActed'.fetched.data, timestamp |-> chNow,
                     ttl |-> ChActed'.ttl]]_vars

\* C14: refresh() leaves no entry for the key of its instance, whether or
\* not there was one; it leaves every other entry as it was; and when the
\* key had no entry (as after a first invalidation) the cache is unchanged.
C14_Invalidation ==
    [][chHist'.op = "refresh" =>
            LET k == ChActed'.cacheKey
            IN  /\ k \notin DOMAIN cache'
                /\ DOMAIN cache' = DOMAIN cache \ {k}
                /\ \A other \in DOMAIN cache \ {k} : cache'[other] = cache[other]
                /\ k \notin DOMAIN cache => cache' = cache]_vars

\* A refresh() that removed nothing of the other key's entry.
C14_Witness ==
    /\ chHist.op = "refresh"
    /\ ChActed.cacheKey \notin DOMAIN cache
    /\ DOMAIN cache # {}
    /\ ChActed.initialData # Null

\* Two args objects are equal as mappings.
SameMapping(a, b) ==
    {a[n] : n \in DOMAIN a} = {b[n] : n \in DOMAIN b}

\* C15: two requests derive the same cache key exactly when they have the
\* same command and args that are equal as mappings, whatever the order
\* the properties were inserted in.
C15_CanonicalKey ==
    \A i, j \in DOMAIN chInst :
        (chInst[i].command = chInst[j].command
            /\ SameMapping(chInst[i].args, chInst[j].args))
        <=> chInst[i].cacheKey = chInst[j].cacheKey

\* C31: a failed invocation leaves the cache as it was, and an entry is
\* created or overwritten only by a successful invocation of an instance
\* with that key, with the value that invocation returned.
C31_OnlySuccessCached ==
    [][/\ chHist'.op = "failure" => cache' = cache
       /\ \A k \in DOMAIN cache' :
            (k \notin DOMAIN cache \/ cache'[k] # cache[k]) =>
                /\ chHist'.op = "success"
                /\ ChActed'.cacheKey = k
                /\ k = CacheKeyOf(ChActed'.command, ChActed'.args)
                /\ chHist'.stored
                /\ cache'[k].data = ChActed'.fetched.data
                /\ cache'[k].data.t \in {"object", "number"}]_vars

\* An invocation has failed for a key that has an entry.
C31_Witness ==
    /\ chHist.op = "failure"
    /\ ChActed.cacheKey \in DOMAIN cache
    /\ Truthy(ChActed.fetched.error)
    /\ cache[ChActed.cacheKey].data.t \in {"object", "number"}

\* C32: a read of a key whose entry is ttl old or older (the read made at
\* the creation of an instance) removes that entry from the map.
C32_LazyEviction ==
    [][chHist'.op = "create" =>
            LET k == ChActed'.cacheKey
            IN  (k \in DOMAIN cache /\ ~Unexpired(cache, k, chNow))
                    => k \notin DOMAIN cache']_vars

\* C39: an instance that has made no call exposes a value it picked up
\* from the cache at creation only while the entry of its key is still
\* there and younger than its ttl.
C39_NoStaleInitialData ==
    \A i \in DOMAIN chInst :
        (chInst[i].fetched = ClientInit /\ ChData(chInst[i]) # Null) =>
            /\ Unexpired(cache, chInst[i].cacheKey, chNow)
            /\ cache[chInst[i].cacheKey].data = ChData(chInst[i])

(***************************************************************************)
(* Properties of useBatchOperations, checked under SpecBatch and           *)
(* SpecBatchLive.                                                          *)
(***************************************************************************)
RECURSIVE TotalLen(_)
TotalLen(calls) ==
    IF calls = <<>> THEN 0 ELSE Len(calls[1]) + TotalLen(Tail(calls))

\* The grouped command of the batch in flight succeeded / failed.
BatchSucceeded == btHist \in {"successResults", "successVoid"}
BatchFailed == btHist \in {"failureCaught", "failureThrown"}

\* C16: the addOperation calls of one debounce window produce one grouped
\* call that carries exactly the operations added since the call before
\* it, in submission order, and when that call succeeds the promise of the
\* i-th operation is resolved with the i-th result.
C16_BatchCoalescing ==
    [][/\ btHist' = "send" =>
            /\ Len(btSent') = Len(btSent) + 1
            /\ Len(pendingOperations) = Len(btPromises) - TotalLen(btSent)
            /\ \A n \in DOMAIN pendingOperations :
                  /\ pendingOperations[n].id = TotalLen(btSent) + n
                  /\ btSent'[Len(btSent')][n] =
                        [command |-> pendingOperations[n].command,
                         args |-> pendingOperations[n].args]
            /\ Len(btSent'[Len(btSent')]) = Len(pendingOperations)
       /\ BatchSucceeded' =>
            \A n \in DOMAIN btOperations :
                btPromises'[btOperations[n].id] =
                    [state |-> "resolved", value |-> ResultOf(btOperations[n])]
      ]_vars

\* C17: when the grouped call of a batch fails, every promise of the batch
\* is rejected with the failure of the transport, and the promises of the
\* other operations are left as they were.
C17_BatchFailure ==
    [][BatchFailed' =>
        \A id \in DOMAIN btPromises :
            IF \E n \in DOMAIN btOperations : btOperations[n].id = id
            THEN btPromises'[id] =
                    [state |-> "rejected", value |-> TransportFailure]
            ELSE btPromises'[id] = btPromises[id]]_vars

\* C18: every promise returned by addOperation is eventually resolved or
\* rejected.
C18_EveryPromiseSettles ==
    \A id \in 1..MaxOperations :
        (Len(btPromises) >= id)
            ~> (Len(btPromises) >= id /\ btPromises[id].state # "pending")

\* C19: processBatch runs only when 50 ms have passed since the last
\* addOperation, and time does not pass beyond those 50 ms without it
\* running: every addOperation restarts the wait.
C19_TrueDebounce ==
    [][/\ btHist' \in {"send", "skipped"} => btSinceAdd >= 50
       /\ btHist' = "advance" => btSinceAdd < 50]_vars

\* A grouped call of two operations, the second added 25 ms after the first.
C19_Witness ==
    /\ btHist = "send"
    /\ Len(btOperations) >= 2
    /\ btOperations[2].gap = 25
    /\ btSinceAdd = 50

\* C33: every operation added is carried by a grouped call: operations are
\* sent in the order they were added, so the n-th operation has been sent
\* once the grouped calls made so far carry n operations.
C33_EveryOperationSent ==
    \A n \in 1..MaxOperations :
        (Len(btPromises) >= n) ~> (TotalLen(btSent) >= n)

(***************************************************************************)
(* Properties of the invocation client, checked under SpecMock.            *)
(***************************************************************************)
\* C20: as soon as execute() has been called pending is true and error is
\* absent, and when the transport settles pending is false and exactly one
\* of data (on success) and error (on failure) has been written by that
\* execution, the other keeping its value.
C20_InvocationLifecycle ==
    [][/\ mkHist'.op = "execute" =>
            /\ mkPending'
            /\ mkError' = Null
       /\ mkHist'.op = "settle" =>
            /\ ~mkPending'
            /\ \/ mkHist'.wrote = "data" /\ mkError' = mkError
               \/ mkHist'.wrote = "error" /\ mkData' = mkData]_vars

C22_FailureLeavesData ==
    [][mkHist'.op = "settle" /\ mkHist'.wrote = "error" =>
          /\ Truthy(mkError')
          /\ mkError' = mockError
          /\ ~mkPending'
          /\ \A t \in mkTimers \ mkTimers' : mkData' = t.data]_vars

\* A failed call has settled and data still holds a value.
C22_Witness ==
    /\ mkHist.op = "settle"
    /\ mkHist.wrote = "error"
    /\ mkData # Null
    /\ mkError = mockError
    /\ ~mkPending

\* C23: refresh() called when no call was ever made starts no call: no
\* request goes out and pending stays as it was.
C23_RefreshBeforeExecute ==
    [][mkHist.calls = 0 /\ mkHist'.op = "refresh" =>
          /\ mkTimers' = mkTimers
          /\ mkPending' = mkPending
          /\ mkHist'.promise # "pending"]_vars

\* C29: pending is true exactly while at least one call has been made and
\* has not settled yet, overlapping calls included.
C29_PendingIffInFlight ==
    mkPending <=> mkTimers # {}

\* C30: a call made while another is in flight cancels nothing: the earlier
\* call stays in flight beside the new one, each call settles on its own,
\* and every settle writes its own outcome over what was there, so that
\* once all have settled data / error show the outcome of the call that
\* settled last.
C30_LastWriteWins ==
    [][/\ (mkHist'.op \in {"execute", "refresh"} /\ mkTimers # {})
             => /\ mkTimers \subseteq mkTimers'
                /\ Cardinality(mkTimers') = Cardinality(mkTimers) + 1
       /\ mkHist'.op = "settle"
             => /\ Cardinality(mkTimers') = Cardinality(mkTimers) - 1
                /\ \/ mkHist'.wrote = "data" /\ mkData' = mockData
                   \/ mkHist'.wrote = "error" /\ mkError' = mockError]_vars

\* Two calls overlapped and both have settled.
C30_Witness ==
    /\ mkHist.overlapped
    /\ mkHist.op = "settle"
    /\ mkHist.calls >= 2
    /\ mkTimers = {}
    /\ ~mkPending

====
